---- MODULE Spec2Model ----
(***************************************************************************)
(* MindRemember API: registration, login, cookie-token identity resolution *)
(* and the folder / theme / record / knowledge-queue create and list       *)
(* endpoints, over one relational store.                                   *)
(*                                                                         *)
(* Time is counted in whole minutes (the unit of the token time-to-live).  *)
(* A step is one awaited statement of one handler together with the code   *)
(* that runs up to the next await: the statements of concurrent requests   *)
(* interleave, and the clock advances between the statements of one        *)
(* request.  The store executes each statement (a SELECT, an INSERT with   *)
(* its COMMIT) atomically.  The variables req and resp hold a finished     *)
(* request and its response until Respond hands the response to the        *)
(* client.  A row keeps its key, parent and text columns, and              *)
(* next_alert_card; the other timestamp and counter columns are written    *)
(* once and read by no operation.                                          *)
(***************************************************************************)
EXTENDS Integers, Sequences, FiniteSets, Bags, TLC

\* ------------------------------------------------------------------ bounds
MaxClock == 2
MaxRows == 1
MaxInFlight == 2
MaxTokens == 2

\* --------------------------------------------------------------- constants
\* passlib's bcrypt handler hashes only the first 72 bytes of a password.
BCRYPT_MAX_BYTES == 72

\* The configuration's token time-to-live, in minutes.
ACCESS_TOKEN_EXPIRE_MINUTES == 1

SECRET_KEY == "SECRET_KEY"
OTHER_KEY == "attacker-key"

Logins == {"alice", "bob"}

\* Passwords are byte strings.
PwShort == <<1, 2>>
PwLong == [i \in 1..BCRYPT_MAX_BYTES |-> 1]
PwLonger == PwLong \o <<2>>
Passwords == {PwShort, PwLong, PwLonger}
\* the passwords registrations are made with
RegPasswords == {PwShort, PwLong}

\* bcrypt draws a fresh random salt for every hash.
Salts == {"salt1"}

Texts == {"Spanish"}

\* Python's None, for a row, a cookie and a timestamp.
None == [none |-> TRUE]
NoCookie == [kind |-> "absent"]
NullTime == -1

VARIABLES
    users,      \* table users: sequence of rows, id = position
    folders,    \* table folders
    themes,     \* table themes
    records,    \* table records
    queues,     \* table knowledge_queues
    pending,    \* per login: registrations past check_unique_login, before create_user
    inflight,   \* bag of the other requests between two awaited statements
    issued,     \* tokens handed out by /login (held by clients)
    audit,      \* history: who created which row (and with which password)
    clock,      \* current time, minutes
    req,        \* the request served by the last step
    resp        \* its response

vars == <<users, folders, themes, records, queues, pending, inflight, issued, audit,
          clock, req, resp>>
tables == <<users, folders, themes, records, queues>>

\* ----------------------------------------------------------------- helpers
Min(S) == CHOOSE x \in S : \A y \in S : x <= y
Range(s) == {s[i] : i \in 1..Len(s)}
Take(s, n) == SubSeq(s, 1, IF Len(s) < n THEN Len(s) ELSE n)

HTTPException(status, detail, headers) ==
    [status |-> status, detail |-> detail, headers |-> headers]
NoHeaders == "none"
BearerHeader == "WWW-Authenticate: Bearer"

Raise(exc) ==
    [status |-> exc.status, detail |-> exc.detail, headers |-> exc.headers,
     body |-> <<>>, set_cookie |-> NoCookie]
Ok(body) ==
    [status |-> 200, detail |-> "", headers |-> NoHeaders,
     body |-> body, set_cookie |-> NoCookie]
NoResponse ==
    [status |-> 0, detail |-> "", headers |-> NoHeaders,
     body |-> <<>>, set_cookie |-> NoCookie]

\* ------------------------------------------------------------ credentials
bcrypt_digest(salt, password) ==
    [salt |-> salt, input |-> Take(password, BCRYPT_MAX_BYTES)]

get_password_hash(password, salt) ==
    [scheme |-> "bcrypt", salt |-> salt, digest |-> bcrypt_digest(salt, password)]

\* mutant: any password verifies
verify_password_any(plain_password, hashed_password) == TRUE

verify_password(plain_password, hashed_password) ==
    bcrypt_digest(hashed_password.salt, plain_password) = hashed_password.digest

\* SELECT ... WHERE login = username, first row or None
get_user(us, username) ==
    LET hits == {i \in 1..Len(us) : us[i].login = username}
    IN IF hits = {} THEN None ELSE us[Min(hits)]

authenticate_user(us, username, password) ==
    LET user == get_user(us, username)
    IN IF user = None THEN None
       ELSE IF ~verify_password(password, user.password) THEN None
       ELSE user

\* mutant: the column is declared without unique=True
UniqueLoginNotDeclared(us, login) == FALSE

\* The UNIQUE constraint on users.login, checked by the store at INSERT.
UniqueLoginViolated(us, login) == \E i \in 1..Len(us) : us[i].login = login

\* ----------------------------------------------------------------- tokens
Sign(key, payload) == [key |-> key, over |-> payload]

jwt_encode(payload, key) ==
    [kind |-> "jws", payload |-> payload, sig |-> Sign(key, payload)]

Garbage == [kind |-> "garbage"]

\* expires_delta is None or a number of minutes; timedelta(0) is falsy.
create_access_token(data, expires_delta, now) ==
    LET expire == IF expires_delta # NullTime /\ expires_delta # 0
                  THEN now + expires_delta
                  ELSE now + ACCESS_TOKEN_EXPIRE_MINUTES
    IN jwt_encode([f \in DOMAIN data \cup {"exp"} |->
                      IF f = "exp" THEN expire ELSE data[f]], SECRET_KEY)

\* jose.jwt.decode: the payload, or JWTError
ExpClaimValid(payload, now) ==
    "exp" \in DOMAIN payload => ~(payload.exp < now)

jwt_decode(token, key, now) ==
    IF token.kind # "jws" THEN [ok |-> FALSE, error |-> "JWTError"]
    ELSE IF token.sig # Sign(key, token.payload)
         THEN [ok |-> FALSE, error |-> "JWTError"]
    ELSE IF ~ExpClaimValid(token.payload, now)
         THEN [ok |-> FALSE, error |-> "ExpiredSignatureError"]
    ELSE [ok |-> TRUE, payload |-> token.payload]

credentials_exception ==
    HTTPException(401, "Could not verify credentials", BearerHeader)

\* get_current_user up to `await get_user`: the cookie, jwt.decode against
\* the clock, and the subject of the payload
token_data(access_token, now) ==
    IF access_token = NoCookie
    THEN [ok |-> FALSE, exc |-> credentials_exception]
    ELSE LET d == jwt_decode(access_token, SECRET_KEY, now)
         IN IF ~d.ok THEN [ok |-> FALSE, exc |-> credentials_exception]
            ELSE IF "sub" \notin DOMAIN d.payload
                 THEN [ok |-> FALSE, exc |-> credentials_exception]
                 ELSE [ok |-> TRUE, username |-> d.payload.sub]

\* mutant: the user query has no WHERE clause, its first row comes back
current_user_first_row(us, username) ==
    IF us = <<>>
    THEN [ok |-> FALSE, exc |-> credentials_exception]
    ELSE [ok |-> TRUE, user |-> us[1]]

\* get_current_user from `await get_user` on: the SELECT by the subject
current_user(us, username) ==
    LET user == get_user(us, username)
    IN IF user = None
       THEN [ok |-> FALSE, exc |-> credentials_exception]
       ELSE [ok |-> TRUE, user |-> user]

\* the whole function, when nothing runs between its two parts
get_current_user(access_token, us, now) ==
    LET t == token_data(access_token, now)
    IN IF ~t.ok THEN t ELSE current_user(us, t.username)

\* ------------------------------------------------------------------- init
Idle == [op |-> "idle"]

Init ==
    /\ users = <<>>
    /\ folders = <<>>
    /\ themes = <<>>
    /\ records = <<>>
    /\ queues = <<>>
    /\ pending = [l \in Logins |-> 0]
    /\ inflight = EmptyBag
    /\ issued = {}
    /\ audit = {}
    /\ clock = 0
    /\ req = Idle
    /\ resp = NoResponse

\* ------------------------------------------------------ requests in flight
\* A handler runs up to an awaited store statement, and other handlers run
\* before it goes on.  A request between two of its statements is a record of
\* what its handler holds: the endpoint, the step it reached, the cookie and
\* the id of the resolved user, and what the statements so far produced.  A
\* field of the request body or path is drawn by the step that first reads it.
RECURSIVE SumOver(_, _)
SumOver(f, S) == IF S = {} THEN 0
                 ELSE LET x == CHOOSE y \in S : TRUE
                      IN f[x] + SumOver(f, S \ {x})
PendingCount == SumOver(pending, Logins)
InFlightCount == PendingCount + BagCardinality(inflight)

InFlight(op, phase) ==
    {r \in BagToSet(inflight) : r.op = op /\ r.phase = phase}
Left(r) == inflight (-) SetToBag({r})
Moved(r, s) == Left(r) (+) SetToBag({s})

\* ----------------------------------------------------------- registration
\* the source's detail text is Russian; this is its English rendering
login_taken_exception ==
    HTTPException(409, "A user with this login is already registered in the database.",
                  NoHeaders)

\* mutant: the dependency lets every login through
check_unique_login_skipped(us, login) == [ok |-> TRUE]

\* Depends(check_unique_login): SELECT by login, 409 when a row exists
check_unique_login(us, login) ==
    IF get_user(us, login) # None
    THEN [ok |-> FALSE, exc |-> login_taken_exception]
    ELSE [ok |-> TRUE]

\* POST /reg, first statement: the uniqueness dependency
RegCheck(login) ==
    /\ req = Idle
    /\ LET c == check_unique_login(users, login)
       IN IF c.ok
          THEN /\ InFlightCount < MaxInFlight
               /\ pending' = [pending EXCEPT ![login] = @ + 1]
               /\ UNCHANGED <<req, resp>>
          ELSE /\ req' = [op |-> "reg", phase |-> "check", login |-> login]
               /\ resp' = Raise(c.exc)
               /\ pending' = pending
    /\ UNCHANGED <<tables, inflight, issued, audit, clock>>

user_exists_exception ==
    HTTPException(400, "A user with this login already exists.", NoHeaders)

\* an exception that no handler catches reaches the server, which answers 500
internal_server_error == HTTPException(500, "Internal Server Error", NoHeaders)

\* create_user up to the end of db.commit(): hash, INSERT + COMMIT; the
\* store's IntegrityError is the one exception the function catches
create_user(us, login, password, salt) ==
    LET new_user == [id |-> Len(us) + 1, login |-> login,
                     password |-> get_password_hash(password, salt)]
    IN IF UniqueLoginViolated(us, login)
       THEN [ok |-> FALSE, exc |-> user_exists_exception, users |-> us]
       ELSE [ok |-> TRUE, data |-> new_user, users |-> Append(us, new_user)]

\* POST /reg, the handler body up to await db.commit().  The request's
\* password is first read here.  raises: the session raises an exception that
\* is no IntegrityError (OperationalError: connection lost, timeout); nothing
\* is committed, `except IntegrityError` does not catch it.
CreateUser(login, password, salt, raises) ==
    /\ req = Idle
    /\ pending[login] > 0
    /\ pending' = [pending EXCEPT ![login] = @ - 1]
    /\ LET r == create_user(users, login, password, salt)
           h == [op |-> "reg", login |-> login]
       IN IF raises
          THEN /\ req' = [phase |-> "commit", id |-> 0, fault |-> "commit"] @@ h
               /\ resp' = Raise(internal_server_error)
               /\ UNCHANGED <<users, inflight, audit>>
          ELSE IF ~r.ok
          THEN /\ inflight' = inflight (+) SetToBag({
                     [phase |-> "failed", id |-> 0, exc |-> r.exc,
                      fault |-> "none"] @@ h})
               /\ UNCHANGED <<users, audit, req, resp>>
          ELSE /\ users' = r.users
               /\ inflight' = inflight (+) SetToBag({
                     [phase |-> "committed", id |-> r.data.id] @@ h})
               /\ audit' = audit \cup {[table |-> "users", id |-> r.data.id,
                                        login |-> login, password |-> password]}
               /\ UNCHANGED <<req, resp>>
    /\ UNCHANGED <<folders, themes, records, queues, issued, clock>>

\* await db.refresh(new_user): SELECT the committed row by its key, and the
\* return.  An exception here is not caught either; the row stays.
CreateUserRefresh(r, raises) ==
    /\ req = Idle
    /\ r \in InFlight("reg", "committed")
    /\ inflight' = Left(r)
    /\ req' = [phase |-> "refresh",
               fault |-> IF raises THEN "refresh" ELSE "none"] @@ r
    /\ resp' = IF raises THEN Raise(internal_server_error)
               ELSE Ok(<<[status |-> 201, data |-> users[r.id]]>>)
    /\ UNCHANGED <<tables, pending, issued, audit, clock>>

\* ------------------------------------------------------------------ login
invalid_credentials_exception ==
    HTTPException(401, "Incorrect username or password", BearerHeader)

\* mutant: an unknown username gets an error of its own
login_for_access_token_tells(us, username, password, now) ==
    LET user == authenticate_user(us, username, password)
    IN IF get_user(us, username) = None
       THEN Raise(HTTPException(404, "User not found", NoHeaders))
       ELSE IF user = None
       THEN Raise(invalid_credentials_exception)
       ELSE LET access_token ==
                    create_access_token([sub |-> user.login],
                                        ACCESS_TOKEN_EXPIRE_MINUTES, now)
            IN [Ok(<<[access_token |-> access_token, token_type |-> "bearer"]>>)
                   EXCEPT !.set_cookie = access_token]

login_for_access_token(us, username, password, now) ==
    LET user == authenticate_user(us, username, password)
    IN IF user = None
       THEN Raise(invalid_credentials_exception)
       ELSE LET access_token ==
                    create_access_token([sub |-> user.login],
                                        ACCESS_TOKEN_EXPIRE_MINUTES, now)
            IN [Ok(<<[access_token |-> access_token, token_type |-> "bearer"]>>)
                   EXCEPT !.set_cookie = access_token]

\* POST /login: one awaited statement (the SELECT of get_user); the password
\* check and the token follow it without a suspension
Login(username, password) ==
    /\ req = Idle
    /\ LET r == login_for_access_token(users, username, password, clock)
       IN /\ r.status = 200 =>
                 (r.set_cookie \in issued \/ Cardinality(issued) < MaxTokens)
          /\ resp' = r
          /\ issued' = IF r.status = 200 THEN issued \cup {r.set_cookie} ELSE issued
    /\ req' = [op |-> "login", username |-> username, password |-> password]
    /\ UNCHANGED <<tables, pending, inflight, audit, clock>>

\* ------------------------------------------------- cookies a client can send
OtherLogin(l) == CHOOSE m \in Logins : m # l

\* a token signed with a key that is not the server's
Forged == jwt_encode([sub |-> "alice", exp |-> MaxClock + 1], OTHER_KEY)

\* an issued token whose subject was rewritten, signature kept
Tampered(t) == [t EXCEPT !.payload.sub = OtherLogin(@)]

Cookies == {NoCookie, Garbage, Forged} \cup issued

\* ------------------------------------------------ the identity dependency
\* Depends(get_current_user) of a protected endpoint, up to `await
\* get_user`: the token is decoded against the clock; 401, or the request
\* waits for the SELECT holding the token's subject.
Authenticate(op, cookie) ==
    /\ req = Idle
    /\ LET t == token_data(cookie, clock)
       IN IF ~t.ok
          THEN /\ req' = [op |-> op, phase |-> "decode", cookie |-> cookie]
               /\ resp' = Raise(t.exc)
               /\ inflight' = inflight
          ELSE /\ InFlightCount < MaxInFlight
               /\ inflight' = inflight (+) SetToBag({
                     [op |-> op, phase |-> "decoded", cookie |-> cookie,
                      username |-> t.username]})
               /\ UNCHANGED <<req, resp>>
    /\ UNCHANGED <<tables, pending, issued, audit, clock>>

\* get_current_user from `await get_user` on: the SELECT of the user, which
\* reads no clock; 401 when no row has the subject as its login, else the
\* handler body is entered holding current_user.  Called on its own
\* (op "get_current_user") the function returns the row.
SelectUser(r) ==
    /\ req = Idle
    /\ r \in BagToSet(inflight)
    /\ r.phase = "decoded"
    /\ LET u == current_user(users, r.username)
       IN IF ~u.ok
          THEN /\ inflight' = Left(r)
               /\ req' = [phase |-> "select_user"] @@ r
               /\ resp' = Raise(u.exc)
          ELSE IF r.op = "get_current_user"
          THEN /\ inflight' = Left(r)
               /\ req' = [phase |-> "select_user"] @@ r
               /\ resp' = Ok(<<u.user>>)
          ELSE /\ inflight' = Moved(r, [phase |-> "resolved",
                                        user_id |-> u.user.id] @@ r)
               /\ UNCHANGED <<req, resp>>
    /\ UNCHANGED <<tables, pending, issued, audit, clock>>

\* ---------------------------------------------------------------- tables
Ids(rows) == {rows[i].id : i \in 1..Len(rows)}

\* mutant: the store does not enforce the declared foreign keys
ForeignKeyNotEnforced(parent_rows, key) == TRUE

\* FOREIGN KEY (col) REFERENCES parent(id); a NULL key is not checked
ForeignKeyOk(parent_rows, key) == key \in Ids(parent_rows)

\* SELECT ... WHERE col = key, in insertion order
RECURSIVE SelectWhere(_, _, _)
SelectWhere(rows, col, key) ==
    IF rows = <<>> THEN <<>>
    ELSE LET r == Head(rows)
             rest == SelectWhere(Tail(rows), col, key)
         IN IF r[col] = key THEN <<r>> \o rest ELSE rest

failed_to_add(what) ==
    HTTPException(400, "Failed to add " \o what \o ".", NoHeaders)

\* The request after `await db.commit()` of an entity create.  res is the
\* INSERT's result; raises: the session raised besides.  Either way
\* `except Exception` catches it and awaits the rollback.
AfterCommit(r, res, what, raises) ==
    IF res.ok /\ ~raises
    THEN [phase |-> "committed", id |-> res.row.id] @@ r
    ELSE [phase |-> "failed", id |-> 0, exc |-> failed_to_add(what),
          fault |-> IF raises THEN "commit" ELSE "none"] @@ r

\* ---------------------------------------------------------------- folders
\* add_folder up to the end of db.commit()
add_folder(rows, us, text, user_id) ==
    LET new_folder == [id |-> Len(rows) + 1, text_folder |-> text, user_id |-> user_id]
    IN IF ~ForeignKeyOk(us, user_id)
       THEN [ok |-> FALSE, exc |-> failed_to_add("folder"), rows |-> rows]
       ELSE [ok |-> TRUE, row |-> new_folder, rows |-> Append(rows, new_folder)]

\* mutant: the WHERE clause is missing
get_user_folders_unfiltered(rows, user_id) == rows

get_user_folders(rows, user_id) == SelectWhere(rows, "user_id", user_id)

\* POST /add_one_folder: the dependency, up to its SELECT
AddOneFolder(cookie) == Authenticate("add_one_folder", cookie)

\* POST /add_one_folder: add_folder up to await db.commit()
AddFolder(r, text, raises) ==
    /\ req = Idle
    /\ r \in InFlight("add_one_folder", "resolved")
    /\ LET res == add_folder(folders, users, text, r.user_id)
           ok == res.ok /\ ~raises
       IN /\ ok => Len(folders) < MaxRows
          /\ folders' = IF ok THEN res.rows ELSE folders
          /\ inflight' = Moved(r, AfterCommit(r, res, "folder", raises))
          /\ audit' = IF ok
                      THEN audit \cup {[table |-> "folders", id |-> res.row.id,
                                        by |-> r.user_id]}
                      ELSE audit
    /\ UNCHANGED <<users, themes, records, queues, pending, issued, clock, req, resp>>

\* GET /folders: the dependency, up to its SELECT
ReadUserFolders(cookie) == Authenticate("read_user_folders", cookie)

\* mutant: listing removes the rows it lists
GetUserFoldersRemoving(r) ==
    /\ req = Idle
    /\ r \in InFlight("read_user_folders", "resolved")
    /\ inflight' = Left(r)
    /\ req' = [phase |-> "select"] @@ r
    /\ resp' = Ok(get_user_folders(folders, r.user_id))
    /\ folders' = SelectSeq(folders, LAMBDA f : f.user_id # r.user_id)
    /\ UNCHANGED <<users, themes, records, queues, pending, issued, audit, clock>>

\* GET /folders: the SELECT of get_user_folders, and the return
GetUserFolders(r) ==
    /\ req = Idle
    /\ r \in InFlight("read_user_folders", "resolved")
    /\ inflight' = Left(r)
    /\ req' = [phase |-> "select"] @@ r
    /\ resp' = Ok(get_user_folders(folders, r.user_id))
    /\ UNCHANGED <<tables, pending, issued, audit, clock>>

\* ----------------------------------------------------------------- themes
\* add_theme up to the end of db.commit()
add_theme(rows, parent_rows, text, folder_id) ==
    LET new_theme == [id |-> Len(rows) + 1, name_theme |-> text, folder_id |-> folder_id]
    IN IF ~ForeignKeyOk(parent_rows, folder_id)
       THEN [ok |-> FALSE, exc |-> failed_to_add("theme"), rows |-> rows]
       ELSE [ok |-> TRUE, row |-> new_theme, rows |-> Append(rows, new_theme)]

get_themes_by_folder(rows, folder_id) == SelectWhere(rows, "folder_id", folder_id)

\* POST /folders/{folder_id}/add_theme: the dependency, up to its SELECT
CreateTheme(cookie) == Authenticate("create_theme", cookie)

\* mutant: the handler refuses a folder that is not the caller's
AddThemeOwnerChecked(r, folder_id, text, raises) ==
    /\ req = Idle
    /\ r \in InFlight("create_theme", "resolved")
    /\ LET owned == \E i \in 1..Len(folders) :
                        /\ folders[i].id = folder_id
                        /\ folders[i].user_id = r.user_id
           res == IF owned THEN add_theme(themes, folders, text, folder_id)
                  ELSE [ok |-> FALSE, exc |-> failed_to_add("theme"), rows |-> themes]
           ok == res.ok /\ ~raises
       IN /\ ok => Len(themes) < MaxRows
          /\ themes' = IF ok THEN res.rows ELSE themes
          /\ inflight' = Moved(r, AfterCommit([folder_id |-> folder_id] @@ r,
                                              res, "theme", raises))
    /\ UNCHANGED <<users, folders, records, queues, pending, issued, audit, clock,
                   req, resp>>

\* POST /folders/{folder_id}/add_theme: add_theme up to await db.commit()
AddTheme(r, folder_id, text, raises) ==
    /\ req = Idle
    /\ r \in InFlight("create_theme", "resolved")
    /\ LET res == add_theme(themes, folders, text, folder_id)
           ok == res.ok /\ ~raises
       IN /\ ok => Len(themes) < MaxRows
          /\ themes' = IF ok THEN res.rows ELSE themes
          /\ inflight' = Moved(r, AfterCommit([folder_id |-> folder_id] @@ r,
                                              res, "theme", raises))
    /\ UNCHANGED <<users, folders, records, queues, pending, issued, audit, clock,
                   req, resp>>

\* GET /folders/{folder_id}/themes: no identity dependency, one SELECT
ReadThemes(cookie, folder_id) ==
    /\ req = Idle
    /\ req' = [op |-> "read_themes", cookie |-> cookie, folder_id |-> folder_id]
    /\ resp' = Ok(get_themes_by_folder(themes, folder_id))
    /\ UNCHANGED <<tables, pending, inflight, issued, audit, clock>>

\* ---------------------------------------------------------------- records
\* add_record up to the end of db.commit()
add_record(rows, parent_rows, text, theme_id) ==
    LET new_record == [id |-> Len(rows) + 1, name_record |-> text, theme_id |-> theme_id]
    IN IF ~ForeignKeyOk(parent_rows, theme_id)
       THEN [ok |-> FALSE, exc |-> failed_to_add("record"), rows |-> rows]
       ELSE [ok |-> TRUE, row |-> new_record, rows |-> Append(rows, new_record)]

get_records_by_theme(rows, theme_id) == SelectWhere(rows, "theme_id", theme_id)

\* POST /themes/{theme_id}/add_record: the dependency, up to its SELECT
CreateRecord(cookie) == Authenticate("create_record", cookie)

\* POST /themes/{theme_id}/add_record: add_record up to await db.commit()
AddRecord(r, theme_id, text, raises) ==
    /\ req = Idle
    /\ r \in InFlight("create_record", "resolved")
    /\ LET res == add_record(records, themes, text, theme_id)
           ok == res.ok /\ ~raises
       IN /\ ok => Len(records) < MaxRows
          /\ records' = IF ok THEN res.rows ELSE records
          /\ inflight' = Moved(r, AfterCommit([theme_id |-> theme_id] @@ r,
                                              res, "record", raises))
    /\ UNCHANGED <<users, folders, themes, queues, pending, issued, audit, clock,
                   req, resp>>

\* GET /themes/{theme_id}/records: no identity dependency, one SELECT
ReadRecords(cookie, theme_id) ==
    /\ req = Idle
    /\ req' = [op |-> "read_records", cookie |-> cookie, theme_id |-> theme_id]
    /\ resp' = Ok(get_records_by_theme(records, theme_id))
    /\ UNCHANGED <<tables, pending, inflight, issued, audit, clock>>

\* -------------------------------------------------------- knowledge queues
\* Column(DateTime, default=datetime.datetime.utcnow): the unit of work leaves
\* an attribute whose value is None out of the INSERT, and the column's
\* default then supplies the value.
ColumnDefault(value, default) == IF value = NullTime THEN default ELSE value

\* add_knowledge_queue up to the end of db.commit().  next_alert is the
\* caller's value; the handler assigns None over it, and now is the time of
\* the INSERT.
add_knowledge_queue(rows, us, text, next_alert, user_id, now) ==
    LET assigned == NullTime
        new_queue == [id |-> Len(rows) + 1, content_knowledge_queue |-> text,
                      next_alert_card |-> ColumnDefault(assigned, now),
                      user_id |-> user_id]
    IN IF ~ForeignKeyOk(us, user_id)
       THEN [ok |-> FALSE, exc |-> failed_to_add("knowledge queue"), rows |-> rows]
       ELSE [ok |-> TRUE, row |-> new_queue, rows |-> Append(rows, new_queue)]

get_knowledge_queues_by_user(rows, user_id) == SelectWhere(rows, "user_id", user_id)

\* POST /knowledge_queue: the dependency, up to its SELECT
CreateKnowledgeQueue(cookie) == Authenticate("create_knowledge_queue", cookie)

\* POST /knowledge_queue: add_knowledge_queue up to await db.commit()
AddKnowledgeQueue(r, text, next_alert, raises) ==
    /\ req = Idle
    /\ r \in InFlight("create_knowledge_queue", "resolved")
    /\ LET res == add_knowledge_queue(queues, users, text, next_alert, r.user_id, clock)
           ok == res.ok /\ ~raises
       IN /\ ok => Len(queues) < MaxRows
          /\ queues' = IF ok THEN res.rows ELSE queues
          /\ inflight' = Moved(r, AfterCommit([next_alert_card |-> next_alert] @@ r,
                                              res, "knowledge queue", raises))
          /\ audit' = IF ok
                      THEN audit \cup {[table |-> "knowledge_queues",
                                        id |-> res.row.id, by |-> r.user_id]}
                      ELSE audit
    /\ UNCHANGED <<users, folders, themes, records, pending, issued, clock, req, resp>>

\* GET /knowledge_queue: the dependency, up to its SELECT
ReadKnowledgeQueue(cookie) == Authenticate("read_knowledge_queue", cookie)

\* GET /knowledge_queue: the SELECT of get_knowledge_queues_by_user, the return
GetKnowledgeQueuesByUser(r) ==
    /\ req = Idle
    /\ r \in InFlight("read_knowledge_queue", "resolved")
    /\ inflight' = Left(r)
    /\ req' = [phase |-> "select"] @@ r
    /\ resp' = Ok(get_knowledge_queues_by_user(queues, r.user_id))
    /\ UNCHANGED <<tables, pending, issued, audit, clock>>

\* ------------------------------------------- refresh, rollback, response
CreateOps == {"add_one_folder", "create_theme", "create_record",
              "create_knowledge_queue"}
TableOf(op) ==
    CASE op = "add_one_folder" -> folders
      [] op = "create_theme" -> themes
      [] op = "create_record" -> records
      [] op = "create_knowledge_queue" -> queues
      [] op = "reg" -> users
What(op) ==
    CASE op = "add_one_folder" -> "folder"
      [] op = "create_theme" -> "theme"
      [] op = "create_record" -> "record"
      [] op = "create_knowledge_queue" -> "knowledge queue"

\* await db.refresh(new_x) of an entity create: SELECT the committed row by
\* its key, and the return.  raises: the SELECT raises; the rollback that
\* follows undoes nothing of the committed transaction.
Refresh(r, raises) ==
    /\ req = Idle
    /\ r \in BagToSet(inflight)
    /\ r.op \in CreateOps /\ r.phase = "committed"
    /\ IF raises
       THEN /\ inflight' = Moved(r, [phase |-> "failed",
                                      exc |-> failed_to_add(What(r.op)),
                                      fault |-> "refresh"] @@ r)
            /\ UNCHANGED <<req, resp>>
       ELSE /\ inflight' = Left(r)
            /\ req' = [phase |-> "refresh", fault |-> "none"] @@ r
            /\ resp' = Ok(<<TableOf(r.op)[r.id]>>)
    /\ UNCHANGED <<tables, pending, issued, audit, clock>>

\* await db.rollback() in the except clause, and the raise of the 400
Rollback(r) ==
    /\ req = Idle
    /\ r \in BagToSet(inflight)
    /\ r.phase = "failed"
    /\ inflight' = Left(r)
    /\ req' = [phase |-> "rollback"] @@ r
    /\ resp' = Raise(r.exc)
    /\ UNCHANGED <<tables, pending, issued, audit, clock>>

\* the response leaves the server
Respond ==
    /\ req # Idle
    /\ req' = Idle
    /\ resp' = NoResponse
    /\ UNCHANGED <<tables, pending, inflight, issued, audit, clock>>

Tick ==
    /\ req = Idle
    /\ clock < MaxClock
    /\ clock' = clock + 1
    /\ UNCHANGED <<tables, pending, inflight, issued, audit, req, resp>>

ParentIds == 1..MaxRows
AlertTimes == {NullTime, MaxClock}

Next ==
    \/ \E l \in Logins : RegCheck(l)
    \/ \E l \in Logins, p \in RegPasswords, s \in Salts : CreateUser(l, p, s, FALSE)
    \/ \E r \in BagToSet(inflight) : CreateUserRefresh(r, FALSE)
    \/ \E l \in Logins, p \in Passwords : Login(l, p)
    \/ \E r \in BagToSet(inflight) : SelectUser(r)
    \/ \E c \in Cookies : AddOneFolder(c)
    \/ \E r \in BagToSet(inflight), t \in Texts : AddFolder(r, t, FALSE)
    \/ \E c \in Cookies : ReadUserFolders(c)
    \/ \E r \in BagToSet(inflight) : GetUserFolders(r)
    \/ \E c \in Cookies : CreateTheme(c)
    \/ \E r \in BagToSet(inflight), f \in ParentIds, t \in Texts : AddTheme(r, f, t, FALSE)
    \/ \E c \in Cookies, f \in ParentIds : ReadThemes(c, f)
    \/ \E c \in Cookies : CreateRecord(c)
    \/ \E r \in BagToSet(inflight), m \in ParentIds, t \in Texts : AddRecord(r, m, t, FALSE)
    \/ \E c \in Cookies, m \in ParentIds : ReadRecords(c, m)
    \/ \E c \in Cookies : CreateKnowledgeQueue(c)
    \/ \E r \in BagToSet(inflight), t \in Texts, n \in AlertTimes :
           AddKnowledgeQueue(r, t, n, FALSE)
    \/ \E c \in Cookies : ReadKnowledgeQueue(c)
    \/ \E r \in BagToSet(inflight) : GetKnowledgeQueuesByUser(r)
    \/ \E r \in BagToSet(inflight) : Refresh(r, FALSE)
    \/ \E r \in BagToSet(inflight) : Rollback(r)
    \/ Respond
    \/ Tick

Spec == Init /\ [][Next]_vars

\* ====================================================================
\* Spec is the whole application.  The specifications below run a part
\* of it, each started in a state the whole reaches: registration and
\* login from the empty store (AuthSpec), and login with the entity
\* endpoints after two users registered and logged in at time 0
\* (EntitySpec).
\* ====================================================================
Users1 == create_user(<<>>, "alice", PwShort, "salt1").users
Users2 == create_user(Users1, "bob", PwLong, "salt1").users
\* the history of those registrations
Audit1 == {[table |-> "users", id |-> 1, login |-> "alice", password |-> PwShort]}
Audit2 == Audit1 \cup {[table |-> "users", id |-> 2, login |-> "bob", password |-> PwLong]}
\* the tokens of a login of each user at time 0
Token1 == login_for_access_token(Users1, "alice", PwShort, 0).set_cookie
Token2 == login_for_access_token(Users2, "bob", PwLong, 0).set_cookie

AuthNext ==
    \/ \E l \in Logins : RegCheck(l)
    \/ \E l \in Logins, p \in RegPasswords, s \in Salts : CreateUser(l, p, s, FALSE)
    \/ \E r \in BagToSet(inflight) : CreateUserRefresh(r, FALSE)
    \/ \E r \in BagToSet(inflight) : Rollback(r)
    \/ \E l \in Logins, p \in Passwords : Login(l, p)
    \/ Respond
    \/ Tick

AuthSpec == Init /\ [][AuthNext]_vars

EntityInit ==
    /\ users = Users2
    /\ folders = <<>>
    /\ themes = <<>>
    /\ records = <<>>
    /\ queues = <<>>
    /\ pending = [l \in Logins |-> 0]
    /\ inflight = EmptyBag
    /\ issued = {Token1, Token2}
    /\ audit = Audit2
    /\ clock = 0
    /\ req = Idle
    /\ resp = NoResponse

\* the cookies sent to the entity endpoints: none, or an issued token (valid
\* or expired); malformed and forged tokens are covered under TokenSpec
EntityCookies == {NoCookie} \cup issued

EntityNext ==
    \/ \E l \in Logins, p \in Passwords : Login(l, p)
    \/ \E r \in BagToSet(inflight) : SelectUser(r)
    \/ \E c \in EntityCookies : AddOneFolder(c)
    \/ \E r \in BagToSet(inflight), t \in Texts : AddFolder(r, t, FALSE)
    \/ \E c \in EntityCookies : ReadUserFolders(c)
    \/ \E r \in BagToSet(inflight) : GetUserFolders(r)
    \/ \E c \in EntityCookies : CreateTheme(c)
    \/ \E r \in BagToSet(inflight), f \in ParentIds, t \in Texts : AddTheme(r, f, t, FALSE)
    \/ \E c \in EntityCookies, f \in ParentIds : ReadThemes(c, f)
    \/ \E c \in EntityCookies : CreateRecord(c)
    \/ \E r \in BagToSet(inflight), m \in ParentIds, t \in Texts : AddRecord(r, m, t, FALSE)
    \/ \E c \in EntityCookies, m \in ParentIds : ReadRecords(c, m)
    \/ \E c \in EntityCookies : CreateKnowledgeQueue(c)
    \/ \E r \in BagToSet(inflight), t \in Texts, n \in AlertTimes :
           AddKnowledgeQueue(r, t, n, FALSE)
    \/ \E c \in EntityCookies : ReadKnowledgeQueue(c)
    \/ \E r \in BagToSet(inflight) : GetKnowledgeQueuesByUser(r)
    \/ \E r \in BagToSet(inflight) : Refresh(r, FALSE)
    \/ \E r \in BagToSet(inflight) : Rollback(r)
    \/ Respond
    \/ Tick

EntitySpec == EntityInit /\ [][EntityNext]_vars

\* ====================================================================
\* The create operations when the store raises.  Besides the constraint
\* violations above, the session raises an exception such as
\* sqlalchemy.exc.OperationalError (connection lost, statement timeout),
\* either in commit, before the row is durable, or in refresh, after the
\* commit made it durable.  FaultSpec starts after the first user's
\* registration and login at time 0.
\* ====================================================================
FaultNext ==
    \/ \E l \in Logins : RegCheck(l)
    \/ \E l \in Logins, p \in RegPasswords, s \in Salts, x \in BOOLEAN :
           CreateUser(l, p, s, x)
    \/ \E r \in BagToSet(inflight), x \in BOOLEAN : CreateUserRefresh(r, x)
    \/ \E r \in BagToSet(inflight) : SelectUser(r)
    \/ \E c \in EntityCookies : AddOneFolder(c)
    \/ \E r \in BagToSet(inflight), t \in Texts, x \in BOOLEAN : AddFolder(r, t, x)
    \/ \E c \in EntityCookies : CreateTheme(c)
    \/ \E r \in BagToSet(inflight), f \in ParentIds, t \in Texts, x \in BOOLEAN :
           AddTheme(r, f, t, x)
    \/ \E c \in EntityCookies : CreateRecord(c)
    \/ \E r \in BagToSet(inflight), m \in ParentIds, t \in Texts, x \in BOOLEAN :
           AddRecord(r, m, t, x)
    \/ \E c \in EntityCookies : CreateKnowledgeQueue(c)
    \/ \E r \in BagToSet(inflight), t \in Texts, n \in AlertTimes, x \in BOOLEAN :
           AddKnowledgeQueue(r, t, n, x)
    \/ \E r \in BagToSet(inflight), x \in BOOLEAN : Refresh(r, x)
    \/ \E r \in BagToSet(inflight) : Rollback(r)
    \/ Respond
    \/ Tick

FaultInit ==
    /\ users = Users1
    /\ folders = <<>>
    /\ themes = <<>>
    /\ records = <<>>
    /\ queues = <<>>
    /\ pending = [l \in Logins |-> 0]
    /\ inflight = EmptyBag
    /\ issued = {Token1}
    /\ audit = Audit1
    /\ clock = 0
    /\ req = Idle
    /\ resp = NoResponse

FaultSpec == FaultInit /\ [][FaultNext]_vars

\* ====================================================================
\* The token functions on their own: create_access_token and
\* get_current_user called with any arguments, over a fixed user table.
\* ====================================================================

TokenInit ==
    /\ users \in {<<>>, Users1, Users2}
    /\ folders = <<>>
    /\ themes = <<>>
    /\ records = <<>>
    /\ queues = <<>>
    /\ pending = [l \in Logins |-> 0]
    /\ inflight = EmptyBag
    /\ issued = {}
    /\ audit = {}
    /\ clock = 0
    /\ req = Idle
    /\ resp = NoResponse

\* a claims dictionary with or without a subject
NoClaims == [f \in {} |-> ""]
TokenData == {[sub |-> l] : l \in Logins} \cup {NoClaims}
\* None, timedelta(0), or a positive number of minutes
ExpiresDeltas == {NullTime} \cup (0..ACCESS_TOKEN_EXPIRE_MINUTES)

IssueToken(data, expires_delta) ==
    /\ req = Idle
    /\ LET t == create_access_token(data, expires_delta, clock)
       IN /\ t \in issued \/ Cardinality(issued) < MaxTokens
          /\ issued' = issued \cup {t}
          /\ audit' = audit \cup {[table |-> "tokens", token |-> t,
                                   expires_delta |-> expires_delta, at |-> clock]}
          /\ resp' = Ok(<<[access_token |-> t]>>)
    /\ req' = [op |-> "create_access_token", data |-> data,
               expires_delta |-> expires_delta]
    /\ UNCHANGED <<tables, pending, inflight, clock>>

TokenCookies ==
    {NoCookie, Garbage, Forged} \cup issued
        \cup {Tampered(t) : t \in {u \in issued : "sub" \in DOMAIN u.payload}}

\* a call of get_current_user on its own, up to `await get_user`
Resolve(cookie) == Authenticate("get_current_user", cookie)

TokenNext ==
    \/ \E d \in TokenData, e \in ExpiresDeltas : IssueToken(d, e)
    \/ \E c \in TokenCookies : Resolve(c)
    \/ \E r \in BagToSet(inflight) : SelectUser(r)
    \/ Respond
    \/ Tick

TokenSpec == TokenInit /\ [][TokenNext]_vars

\* ====================================================================
\* The application of the top-level main.py: one endpoint, POST /users/,
\* over the users table of users/models.py.  create_user makes its own
\* SELECT before the INSERT, stores the password as it was sent, and
\* answers 400 both when the SELECT finds the login and when the INSERT
\* violates the UNIQUE constraint.
\* ====================================================================
\* the source's detail text is Russian; this is its transliteration
login_exists_exception ==
    HTTPException(400, "Polzovatel s takim loginom uzhe sushchestvuet.", NoHeaders)

\* create_user of users/service.py from User(**user.dict()) to the end of
\* db.commit(): the password column takes the request's password unhashed
create_user_plain(us, login, password) ==
    LET new_user == [id |-> Len(us) + 1, login |-> login, password |-> password]
    IN IF UniqueLoginViolated(us, login)
       THEN [ok |-> FALSE, exc |-> login_exists_exception, users |-> us]
       ELSE [ok |-> TRUE, data |-> new_user, users |-> Append(us, new_user)]

\* POST /users/: the SELECT by login, and the 400 when a row exists
AddUser(login, password) ==
    /\ req = Idle
    /\ LET h == [op |-> "add_user", login |-> login, password |-> password]
       IN IF get_user(users, login) # None
          THEN /\ req' = [phase |-> "select"] @@ h
               /\ resp' = Raise(login_exists_exception)
               /\ inflight' = inflight
          ELSE /\ InFlightCount < MaxInFlight
               /\ inflight' = inflight (+) SetToBag({[phase |-> "selected"] @@ h})
               /\ UNCHANGED <<req, resp>>
    /\ UNCHANGED <<tables, pending, issued, audit, clock>>

\* POST /users/: db.add and await db.commit()
AddUserCommit(r) ==
    /\ req = Idle
    /\ r \in InFlight("add_user", "selected")
    /\ LET res == create_user_plain(users, r.login, r.password)
       IN /\ users' = res.users
          /\ inflight' = Moved(r, IF res.ok
                                  THEN [phase |-> "committed", id |-> res.data.id] @@ r
                                  ELSE [phase |-> "failed", id |-> 0, exc |-> res.exc,
                                        fault |-> "none"] @@ r)
    /\ UNCHANGED <<folders, themes, records, queues, pending, issued, audit, clock,
                   req, resp>>

\* POST /users/: await db.refresh(new_user) and the return of the row
AddUserRefresh(r) ==
    /\ req = Idle
    /\ r \in InFlight("add_user", "committed")
    /\ inflight' = Left(r)
    /\ req' = [phase |-> "refresh", fault |-> "none"] @@ r
    /\ resp' = Ok(<<users[r.id]>>)
    /\ UNCHANGED <<tables, pending, issued, audit, clock>>

UsersNext ==
    \/ \E l \in Logins, p \in RegPasswords : AddUser(l, p)
    \/ \E r \in BagToSet(inflight) : AddUserCommit(r)
    \/ \E r \in BagToSet(inflight) : AddUserRefresh(r)
    \/ \E r \in BagToSet(inflight) : Rollback(r)
    \/ Respond
    \/ Tick

UsersSpec == Init /\ [][UsersNext]_vars

\* ====================================================================
\* Properties
\* ====================================================================
HasLogin(us, l) == \E i \in 1..Len(us) : us[i].login = l
RegisteredWith(l) == {a.password : a \in {b \in audit : b.table = "users" /\ b.login = l}}
IsPrefix(s, t) == Len(s) <= Len(t) /\ SubSeq(t, 1, Len(s)) = s

\* the step is the db.commit() of the in-flight request r of endpoint op,
\* which leaves it as s
Committing(op, r, s) ==
    /\ r.op = op /\ r.phase = "resolved"
    /\ s.op = op /\ s.phase \in {"committed", "failed"}
    /\ inflight' = Moved(r, s)

\* C1: registering a login the store lacks inserts exactly one user with that
\* login and succeeds; a later registration of the same login is rejected by
\* the uniqueness check with the 409 login-taken error, it never reaches the
\* insert and the store is unchanged.
C1_RegisterTwice ==
    [][/\ (req = Idle /\ req'.op = "reg" /\ req'.phase = "check") =>
              /\ HasLogin(users, req'.login)
              /\ resp' = Raise(login_taken_exception)
              /\ pending' = pending
              /\ inflight' = inflight
              /\ tables' = tables
       /\ \A l \in Logins :
              /\ pending'[l] > pending[l] =>
                     /\ ~HasLogin(users, l)
                     /\ tables' = tables
              /\ (pending'[l] < pending[l] /\ ~HasLogin(users, l)) =>
                     /\ Len(users') = Len(users) + 1
                     /\ SubSeq(users', 1, Len(users)) = users
                     /\ users'[Len(users')].login = l
                     /\ inflight' = inflight (+) SetToBag({
                            [op |-> "reg", login |-> l, phase |-> "committed",
                             id |-> Len(users')]})
       /\ (req = Idle /\ req'.op = "reg" /\ req'.phase = "refresh") =>
              /\ resp'.status = 200
              /\ resp'.body[1].status = 201
              /\ resp'.body[1].data = users[req'.id]
              /\ resp'.body[1].data.login = req'.login
              /\ tables' = tables
      ]_vars

\* after one registration of a login ran to its end, a second one was
\* stopped by the check
C1_Witness ==
    /\ req.op = "reg" /\ req.phase = "check"
    /\ resp = Raise(login_taken_exception)
    /\ PendingCount = 0 /\ inflight = EmptyBag
    /\ Len(users) = 1 /\ users[1].login = req.login

\* C2: under every interleaving of registrations, no two rows of the user
\* table have the same login.
C2_UniqueLogins ==
    \A i, j \in 1..Len(users) : users[i].login = users[j].login => i = j

\* two registrations of one login both passed the check; one insert lost
C2_Witness ==
    /\ req.op = "reg" /\ req.phase = "rollback"
    /\ resp.status # 200
    /\ HasLogin(users, req.login)

\* C3: the loser of an insert race is told the same conflict (status and
\* message) as a registration stopped by the uniqueness check.
C3_SameConflictKind ==
    (req.op = "reg" /\ req.phase = "rollback") =>
        /\ resp.status = login_taken_exception.status
        /\ resp.detail = login_taken_exception.detail

\* C4: a login with an unknown username and a login with a known username and
\* a password that does not verify get the identical error (status, message,
\* headers); no token is issued, no cookie is set, the store is unchanged.
C4_LoginFailureUniform ==
    [][(req = Idle /\ req'.op = "login") =>
         /\ (~HasLogin(users, req'.username) \/ resp'.status # 200) =>
                /\ resp' = Raise(invalid_credentials_exception)
                /\ resp'.set_cookie = NoCookie
                /\ resp'.body = <<>>
                /\ issued' = issued
         /\ tables' = tables
      ]_vars

\* a known username with a wrong password got the error of the unknown username
C4_Witness ==
    /\ req.op = "login"
    /\ HasLogin(users, req.username)
    /\ resp = Raise(invalid_credentials_exception)

LoginSucceeded(r, l, now) ==
    /\ r.status = 200
    /\ Len(r.body) = 1
    /\ r.body[1].token_type = "bearer"
    /\ r.set_cookie = r.body[1].access_token
    /\ r.set_cookie.kind = "jws"
    /\ r.set_cookie.payload.sub = l
    /\ r.set_cookie.sig = Sign(SECRET_KEY, r.set_cookie.payload)

\* C5 as stated: after Register(L, P), Login(L, P) succeeds with a bearer token
\* for L set as the cookie, and Login(L, P2) fails for every P2 # P.
C5_LoginAfterRegister ==
    (req.op = "login" /\ RegisteredWith(req.username) # {}) =>
        \A P \in RegisteredWith(req.username) :
            /\ req.password = P => LoginSucceeded(resp, req.username, clock)
            /\ req.password # P => resp.status # 200

\* C5, amended: Login(L, P2) fails for every P2 that differs from P within
\* the first 72 bytes.
C5_LoginAfterRegisterBcrypt ==
    (req.op = "login" /\ RegisteredWith(req.username) # {}) =>
        \A P \in RegisteredWith(req.username) :
            /\ req.password = P => LoginSucceeded(resp, req.username, clock)
            /\ Take(req.password, BCRYPT_MAX_BYTES) # Take(P, BCRYPT_MAX_BYTES)
                   => resp = Raise(invalid_credentials_exception)

\* the registered password logged in and the cookie carries the token
C5_Witness ==
    /\ req.op = "login"
    /\ req.password = PwLong
    /\ RegisteredWith(req.username) = {PwLong}
    /\ LoginSucceeded(resp, req.username, clock)
    /\ resp.set_cookie \in issued

\* C6 as stated: identity resolution fails with the one unauthenticated error,
\* and returns no user, when the cookie is absent, the token is malformed,
\* its signature does not verify, the time is at or past its expiry, it has
\* no subject, or its subject is no user's login: no call in one of the first
\* five cases, at the time the token is checked, gets past the check, and
\* the SELECT of a subject that is no user's login answers the error.
BadSignature(c) == c.kind = "jws" /\ c.sig # Sign(SECRET_KEY, c.payload)
WellSigned(c) == c.kind = "jws" /\ c.sig = Sign(SECRET_KEY, c.payload)
C6_ResolutionFails ==
    [][/\ \A s \in BagToSet(inflight') :
              (s.op = "get_current_user" /\ s.phase = "decoded"
                   /\ inflight' = inflight (+) SetToBag({s})) =>
                  LET c == s.cookie
                  IN ~(\/ c = NoCookie
                       \/ c = Garbage
                       \/ BadSignature(c)
                       \/ (WellSigned(c) /\ clock >= c.payload.exp)
                       \/ (WellSigned(c) /\ "sub" \notin DOMAIN c.payload))
       /\ (req = Idle /\ req'.op = "get_current_user") =>
              /\ req'.phase = "decode" => resp' = Raise(credentials_exception)
              /\ (req'.phase = "select_user" /\ ~HasLogin(users, req'.username)) =>
                     resp' = Raise(credentials_exception)
      ]_vars

\* C7: a token issued by Login for U, presented before its expiry, resolves to
\* the one user row whose login is U's, on every protected request: the token
\* check refuses it only when the time is not before the expiry, the SELECT
\* of the user never refuses it, every request past the dependency holds the
\* id of that row, and the handler acts for it; the result is a function of
\* the token, the clock and the user table.
ProtectedOps == {"add_one_folder", "read_user_folders", "create_theme",
                 "create_record", "create_knowledge_queue", "read_knowledge_queue"}
RowOf(l) == users[CHOOSE i \in 1..Len(users) : users[i].login = l]
\* the requests that passed the identity dependency
Holders ==
    {r \in BagToSet(inflight) : r.op \in ProtectedOps /\ r.phase # "decoded"}
        \cup (IF req.op \in ProtectedOps /\ req.phase \notin {"decode", "select_user"}
              THEN {req} ELSE {})
C7_TokenResolvesToOwner ==
    /\ \A t \in issued : clock < t.payload.exp =>
           LET r == get_current_user(t, users, clock)
           IN /\ r.ok
              /\ r.user.login = t.payload.sub
              /\ \E i \in 1..Len(users) :
                     /\ users[i] = r.user
                     /\ r.user.id = i
                     /\ \A j \in 1..Len(users) :
                            users[j].login = t.payload.sub => j = i
    /\ \A r \in Holders :
           /\ r.cookie \in issued
           /\ r.user_id = RowOf(r.cookie.payload.sub).id
    /\ (req.op \in ProtectedOps /\ req.phase = "decode" /\ req.cookie \in issued) =>
           ~(clock < req.cookie.payload.exp)
    /\ (req.op \in ProtectedOps /\ req.phase = "select_user") =>
           req.cookie \notin issued
    /\ (req.op \in {"add_one_folder", "create_knowledge_queue"}
            /\ resp.status = 200) =>
           resp.body[1].user_id = RowOf(req.cookie.payload.sub).id
    /\ (req.op = "read_user_folders" /\ resp.status = 200) =>
           resp = Ok(SelectWhere(folders, "user_id",
                                 RowOf(req.cookie.payload.sub).id))

\* the second user's token created a folder owned by the second user
C7_Witness ==
    /\ req.op = "add_one_folder"
    /\ req.cookie \in issued
    /\ req.cookie.payload.sub = "bob"
    /\ Len(users) = 2 /\ users[2].login = "bob"
    /\ resp.status = 200
    /\ resp.body[1].user_id = 2

\* C8: a token created with a time-to-live of zero expires at its issue time
\* and never resolves to a user, at the issue time or later.
C8_ZeroTtlExpired ==
    \A a \in audit : (a.table = "tokens" /\ a.expires_delta = 0) =>
        /\ a.token.payload.exp = a.at
        /\ ~get_current_user(a.token, users, clock).ok

\* C9: every folder, theme, record and knowledge-queue endpoint answers a
\* request with no cookie or an invalid one with the unauthorized error.
EntityOps == ProtectedOps \cup {"read_themes", "read_records"}
C9_EntityEndpointsProtected ==
    (req.op \in EntityOps
        /\ (req.cookie = NoCookie \/ req.cookie = Garbage \/ BadSignature(req.cookie)))
    => resp = Raise(credentials_exception)

\* C10: the folders listed for user U are exactly the folders created by
\* requests authenticated as U, each with user_id = U's id, and none of them
\* is listed for another user; likewise for knowledge-queue entries.
CreatedBy(rows, table, uid) ==
    {r \in Range(rows) : [table |-> table, id |-> r.id, by |-> uid] \in audit}
C10_ListsAreOwnRows ==
    /\ \A i \in 1..Len(users) :
           LET uid == users[i].id
               fs == get_user_folders(folders, uid)
               qs == get_knowledge_queues_by_user(queues, uid)
           IN /\ Range(fs) = CreatedBy(folders, "folders", uid)
              /\ Range(qs) = CreatedBy(queues, "knowledge_queues", uid)
              /\ \A k \in 1..Len(fs) : fs[k].user_id = uid
              /\ \A k \in 1..Len(qs) : qs[k].user_id = uid
              /\ Len(fs) = Cardinality(Range(fs))
              /\ Len(qs) = Cardinality(Range(qs))
    /\ (req.op = "read_user_folders" /\ resp.status = 200) =>
           Range(resp.body) =
               CreatedBy(folders, "folders", RowOf(req.cookie.payload.sub).id)
    /\ (req.op = "read_knowledge_queue" /\ resp.status = 200) =>
           Range(resp.body) =
               CreatedBy(queues, "knowledge_queues", RowOf(req.cookie.payload.sub).id)

\* a folder of one user exists and the other user's listing came back empty
C10_Witness ==
    /\ req.op = "read_user_folders"
    /\ resp = Ok(<<>>)
    /\ Len(folders) = 1
    /\ folders[1].user_id # RowOf(req.cookie.payload.sub).id

\* C11: on every create operation (user, folder, theme, record, knowledge
\* queue), when the store raises during add, commit or refresh, the caller
\* gets the operation's domain error (the user conflict or "Failed to add
\* X."), never the raw exception, and the store holds the rows it held before
\* the call: the row of the failed request is not in its table.
IsCreate(r) ==
    /\ r.op \in CreateOps \cup {"reg"}
    /\ r.phase \in {"commit", "refresh", "rollback"}
DomainErrors ==
    {Raise(user_exists_exception)} \cup
    {Raise(failed_to_add(w)) : w \in {"folder", "theme", "record", "knowledge queue"}}
C11_CreateFailureRolledBack ==
    (IsCreate(req) /\ resp.status # 200) =>
        /\ resp \in DomainErrors
        /\ req.id \notin Ids(TableOf(req.op))

\* C12: every knowledge-queue row has a null next_alert_card, whatever value
\* the creating request supplied.
C12_NextAlertNull ==
    /\ \A i \in 1..Len(queues) : queues[i].next_alert_card = NullTime
    /\ (req.op = "create_knowledge_queue" /\ resp.status = 200) =>
           resp.body[1].next_alert_card = NullTime

\* C13: every folder and knowledge-queue row references an existing user,
\* every theme row an existing folder and every record row an existing theme;
\* the commit of a theme whose folder_id names no folder, or of a record whose
\* theme_id names no theme, fails and inserts nothing, and the request is
\* answered "Failed to add".
References(rows, col, parent_rows) ==
    \A i \in 1..Len(rows) : rows[i][col] \in Ids(parent_rows)
C13_ReferentialIntegrity ==
    [][/\ References(folders', "user_id", users')
       /\ References(queues', "user_id", users')
       /\ References(themes', "folder_id", folders')
       /\ References(records', "theme_id", themes')
       /\ \A r \in BagToSet(inflight), s \in BagToSet(inflight') :
              /\ (Committing("create_theme", r, s) /\ s.folder_id \notin Ids(folders)) =>
                     /\ s.phase = "failed"
                     /\ s.exc = failed_to_add("theme")
                     /\ themes' = themes
              /\ (Committing("create_record", r, s) /\ s.theme_id \notin Ids(themes)) =>
                     /\ s.phase = "failed"
                     /\ s.exc = failed_to_add("record")
                     /\ records' = records
       /\ (req = Idle /\ req'.op \in CreateOps /\ req'.phase = "rollback") =>
              /\ \E r \in BagToSet(inflight) :
                     /\ r.phase = "failed" /\ r.op = req'.op
                     /\ resp' = Raise(r.exc)
              /\ resp' = Raise(failed_to_add(What(req'.op)))
              /\ tables' = tables
      ]_vars

\* a theme for a folder id that names no folder was refused, nothing inserted
C13_Witness ==
    /\ req.op = "create_theme" /\ req.phase = "rollback"
    /\ req.fault = "none"
    /\ req.folder_id \notin Ids(folders)
    /\ resp = Raise(failed_to_add("theme"))
    /\ themes = <<>>

\* C14: theme and record create and list use only the parent id: the commit
\* of an authenticated caller's create succeeds exactly when the parent row
\* exists, whoever owns it, the row is returned, and the list returns the rows
\* under the parent id to any caller; a theme in a folder of another user than
\* its creator occurs.
C14_NoOwnershipCheck ==
    [][/\ \A r \in BagToSet(inflight), s \in BagToSet(inflight') :
              /\ Committing("create_theme", r, s) =>
                     IF s.folder_id \in Ids(folders)
                     THEN /\ s.phase = "committed"
                          /\ s.id = Len(themes) + 1
                          /\ themes' = Append(themes, themes'[s.id])
                          /\ themes'[s.id].folder_id = s.folder_id
                     ELSE s.phase = "failed" /\ themes' = themes
              /\ Committing("create_record", r, s) =>
                     IF s.theme_id \in Ids(themes)
                     THEN /\ s.phase = "committed"
                          /\ s.id = Len(records) + 1
                          /\ records' = Append(records, records'[s.id])
                          /\ records'[s.id].theme_id = s.theme_id
                     ELSE s.phase = "failed" /\ records' = records
       /\ (req = Idle /\ req'.op = "create_theme" /\ req'.phase = "refresh") =>
              /\ resp' = Ok(<<themes[req'.id]>>)
              /\ resp'.body[1].folder_id = req'.folder_id
       /\ (req = Idle /\ req'.op = "create_record" /\ req'.phase = "refresh") =>
              /\ resp' = Ok(<<records[req'.id]>>)
              /\ resp'.body[1].theme_id = req'.theme_id
       /\ (req = Idle /\ req'.op = "read_themes") =>
              resp' = Ok(SelectWhere(themes, "folder_id", req'.folder_id))
       /\ (req = Idle /\ req'.op = "read_records") =>
              resp' = Ok(SelectWhere(records, "theme_id", req'.theme_id))
      ]_vars

\* the second user created a theme in the first user's folder
C14_Witness ==
    /\ req.op = "create_theme" /\ req.phase = "refresh"
    /\ resp.status = 200
    /\ folders[req.folder_id].user_id # req.user_id
    /\ req.user_id = RowOf(req.cookie.payload.sub).id
    /\ themes[req.id].folder_id = req.folder_id

\* C15: no step removes or changes a row of any table (so a user's id, login
\* and password hash stay as registered); every step that answers a request
\* (a list, a login, a refusal, a refresh, a rollback) and every identity
\* resolution leaves every table unchanged; a table changes only in the
\* commit of a create, and no table but that create's own.
ListOps == {"read_user_folders", "read_themes", "read_records",
            "read_knowledge_queue"}
C15_StoreOnlyGrows ==
    [][/\ IsPrefix(users, users')
       /\ IsPrefix(folders, folders')
       /\ IsPrefix(themes, themes')
       /\ IsPrefix(records, records')
       /\ IsPrefix(queues, queues')
       /\ req' # req => tables' = tables
       /\ req'.op \in ListOps \cup {"login"} => tables' = tables
       /\ BagCardinality(inflight') > BagCardinality(inflight) =>
              (tables' = tables \/ \E l \in Logins : pending'[l] < pending[l])
       /\ tables' # tables =>
              \/ /\ \E l \in Logins : pending'[l] < pending[l]
                 /\ <<folders', themes', records', queues'>> =
                        <<folders, themes, records, queues>>
              \/ \E r \in BagToSet(inflight), s \in BagToSet(inflight') :
                     /\ s.phase = "committed"
                     /\ \/ /\ Committing("add_one_folder", r, s)
                           /\ <<users', themes', records', queues'>> =
                                  <<users, themes, records, queues>>
                        \/ /\ Committing("create_theme", r, s)
                           /\ <<users', folders', records', queues'>> =
                                  <<users, folders, records, queues>>
                        \/ /\ Committing("create_record", r, s)
                           /\ <<users', folders', themes', queues'>> =
                                  <<users, folders, themes, queues>>
                        \/ /\ Committing("create_knowledge_queue", r, s)
                           /\ <<users', folders', themes', records'>> =
                                  <<users, folders, themes, records>>
      ]_vars

\* a user listed their folders while every table held a row
C15_Witness ==
    /\ req.op = "read_user_folders"
    /\ resp.status = 200
    /\ Len(resp.body) = 1
    /\ Len(users) = 2
    /\ Len(themes) = 1 /\ Len(records) = 1 /\ Len(queues) = 1

====
